---- MODULE Spec2Model ----
(***************************************************************************)
(* couchtap: the TAP client of src/lib/client.js as a state machine.       *)
(*                                                                         *)
(* Bytes are integers 0..255, a Buffer is a sequence of bytes, a string is *)
(* a sequence of code points.  An optional JavaScript value (undefined or  *)
(* a value) is the empty tuple or a one-element tuple.  A uint32 read from *)
(* a Buffer is kept as its two 16-bit halves [hi, lo].                     *)
(*                                                                         *)
(* trace is everything observable, in order: each input handed to the      *)
(* client (kind "in"), then what the handler did with it: notifications    *)
(* to subscribers ("emit"), calls on the transport ("send", "closeReq",    *)
(* "connectReq") and an exception leaving the handler ("throw").  Every    *)
(* entry carries the value of _connected (at) and of this.mode (md) at     *)
(* that moment.                                                            *)
(***************************************************************************)
EXTENDS Integers, Sequences, FiniteSets, TLC

VARIABLES opts, subs, connected, mode, trace, arg

vars == <<opts, subs, connected, mode, trace, arg>>

(*************************** bounds of the model ***************************)
\* inputs (transport signals, packets, API calls) handled in one run
MaxSteps == 3
\* longest key region / body region of a generated mutation or delete packet
MaxLen == 2
\* largest item-meta length of a generated mutation or delete packet
MaxMeta == 3
\* longest vbucket list of a generated mode configuration
MaxVb == 2

(******************************* byte helpers ******************************)
Min(a, b) == IF a < b THEN a ELSE b

RECURSIVE Concat(_)
Concat(chunks) ==
  IF chunks = <<>> THEN <<>> ELSE Head(chunks) \o Concat(Tail(chunks))

\* buf.slice(start, end): both ends clamped to the buffer, empty when start >= end
BufSlice(buf, start, end) ==
  SubSeq(buf, Min(start, Len(buf)) + 1, Min(end, Len(buf)))

\* buf.slice(start)
BufSliceFrom(buf, start) == BufSlice(buf, start, Len(buf))

\* the fixed-offset reads throw a RangeError when they run past the buffer
CanRead(buf, off, n) == off + n <= Len(buf)

readUInt8(buf, off) == buf[off + 1]

readUInt16BE(buf, off) == buf[off + 1] * 256 + buf[off + 2]

readUInt32BE(buf, off) ==
  [hi |-> readUInt16BE(buf, off), lo |-> readUInt16BE(buf, off + 2)]

\* JavaScript's (w & bit) for a bit of the low half, as !!(...)
BitAnd(w, bit) == (w.lo \div bit) % 2 = 1

createUInt16BE(n) == <<(n \div 256) % 256, n % 256>>

createUInt32BE(n) ==
  <<(n \div 16777216) % 256, (n \div 65536) % 256, (n \div 256) % 256, n % 256>>

\* (new Int64(n)).buffer: 8 bytes, big-endian, two's complement
Int64Buffer(n) ==
  LET ext == IF n < 0 THEN 255 ELSE 0
  IN  <<ext, ext, ext, ext>> \o createUInt32BE(n)

(********************************* UTF-8 ***********************************)
Replacement == 65533

IsCont(b) == b >= 128 /\ b <= 191

\* the two halves of a surrogate pair
IsHighSurrogate(c) == c >= 55296 /\ c <= 56319

IsLowSurrogate(c) == c >= 56320 /\ c <= 57343

\* the UTF-8 bytes of one code point that is not a surrogate
Utf8Bytes(c) ==
  IF c < 128 THEN <<c>>
  ELSE IF c < 2048 THEN <<192 + (c \div 64), 128 + (c % 64)>>
  ELSE IF c < 65536
       THEN <<224 + (c \div 4096), 128 + ((c \div 64) % 64), 128 + (c % 64)>>
       ELSE <<240 + (c \div 262144), 128 + ((c \div 4096) % 64),
              128 + ((c \div 64) % 64), 128 + (c % 64)>>

\* new Buffer(string): the UTF-8 encoding of a string.  A high surrogate and
\* the low surrogate after it encode the code point they spell; a surrogate
\* without its other half is encoded as U+FFFD.
RECURSIVE Utf8Encode(_)
Utf8Encode(str) ==
  IF str = <<>> THEN <<>>
  ELSE LET c == Head(str)
       IN  IF IsHighSurrogate(c) /\ Len(str) >= 2 /\ IsLowSurrogate(str[2])
           THEN Utf8Bytes(65536 + (c - 55296) * 1024 + (str[2] - 56320))
                  \o Utf8Encode(Tail(Tail(str)))
           ELSE IF IsHighSurrogate(c) \/ IsLowSurrogate(c)
           THEN Utf8Bytes(Replacement) \o Utf8Encode(Tail(str))
           ELSE Utf8Bytes(c) \o Utf8Encode(Tail(str))

\* the bytes a lead byte needs after it, and the range of the first of them
Utf8Need(b) ==
  IF b >= 194 /\ b <= 223 THEN 1
  ELSE IF b >= 224 /\ b <= 239 THEN 2
  ELSE IF b >= 240 /\ b <= 244 THEN 3
  ELSE 0

Utf8Lower(b) == IF b = 224 THEN 160 ELSE IF b = 240 THEN 144 ELSE 128

Utf8Upper(b) == IF b = 237 THEN 159 ELSE IF b = 244 THEN 143 ELSE 191

\* how many of the bytes after position i continue the sequence its lead starts
RECURSIVE Utf8Run(_, _, _, _)
Utf8Run(buf, i, k, need) ==
  IF k > need \/ i + k > Len(buf) THEN k - 1
  ELSE LET b  == buf[i + k]
           ok == IF k = 1
                 THEN b >= Utf8Lower(buf[i]) /\ b <= Utf8Upper(buf[i])
                 ELSE IsCont(b)
       IN  IF ok THEN Utf8Run(buf, i, k + 1, need) ELSE k - 1

Utf8Value(buf, i, need) ==
  IF need = 1 THEN (buf[i] - 192) * 64 + (buf[i + 1] - 128)
  ELSE IF need = 2
       THEN (buf[i] - 224) * 4096 + (buf[i + 1] - 128) * 64 + (buf[i + 2] - 128)
       ELSE (buf[i] - 240) * 262144 + (buf[i + 1] - 128) * 4096
            + (buf[i + 2] - 128) * 64 + (buf[i + 3] - 128)

\* buf.toString('utf8'): an ill-formed sequence becomes one U+FFFD
RECURSIVE Utf8DecodeFrom(_, _)
Utf8DecodeFrom(buf, i) ==
  IF i > Len(buf) THEN <<>>
  ELSE LET b    == buf[i]
           need == Utf8Need(b)
           run  == Utf8Run(buf, i, 1, need)
       IN  IF b < 128 THEN <<b>> \o Utf8DecodeFrom(buf, i + 1)
           ELSE IF need = 0 THEN <<Replacement>> \o Utf8DecodeFrom(buf, i + 1)
           ELSE IF run = need
                THEN <<Utf8Value(buf, i, need)>> \o Utf8DecodeFrom(buf, i + need + 1)
                ELSE <<Replacement>> \o Utf8DecodeFrom(buf, i + run + 1)

Utf8Decode(buf) == Utf8DecodeFrom(buf, 1)

\* extras.toString('ascii'): the high bit of every byte is dropped
RECURSIVE AsciiDecode(_)
AsciiDecode(buf) ==
  IF buf = <<>> THEN <<>> ELSE <<Head(buf) % 128>> \o AsciiDecode(Tail(buf))

\* str.split(' ')
RECURSIVE SplitSpace(_, _)
SplitSpace(str, cur) ==
  IF str = <<>> THEN <<cur>>
  ELSE IF Head(str) = 32 THEN <<cur>> \o SplitSpace(Tail(str), <<>>)
  ELSE SplitSpace(Tail(str), Append(cur, Head(str)))

PLAIN == <<80, 76, 65, 73, 78>>

\* sasl_plain.response({username, password}): authzid NUL username NUL password
SaslPlainResponse(username, password) == <<0>> \o username \o <<0>> \o password

(******************************** the header *******************************)
createHeader ==
  [magic |-> 0, opcode |-> 0, keyLength |-> 0, extrasLength |-> 0, dataType |-> 0,
   status |-> 0, dataLength |-> 0, opaque |-> 0, cas |-> 0]

HeaderToObject(header) == header

DefaultPort == 11210

(********************** the handler's running state ************************)
\* A handler runs on a record st: the fields it may assign, what it has done so
\* far (out) and whether an exception is propagating (thrown); every step of a
\* handler is skipped once thrown is set.
Start == [connected |-> connected, mode |-> mode, out |-> <<>>, thrown |-> FALSE]

Did(st, entry) ==
  [st EXCEPT !.out = Append(@, entry @@ [at |-> st.connected, md |-> st.mode])]

Throw(st, what) ==
  [Did(st, [kind |-> "throw", what |-> what]) EXCEPT !.thrown = TRUE]

(************************ the transport (Connection) ***********************)
\* _conn.send(header, ...buffers): one packet, the header and the buffers in order
ConnSend(st, header, chunks) ==
  IF st.thrown THEN st
  ELSE Did(st, [kind |-> "send", header |-> header, payload |-> Concat(chunks)])

\* _conn.close()
ConnClose(st) ==
  IF st.thrown THEN st ELSE Did(st, [kind |-> "closeReq"])

\* _conn.connect({host, port})
ConnConnect(st, host, port) ==
  IF st.thrown THEN st
  ELSE Did(st, [kind |-> "connectReq", host |-> host, port |-> port])

\* the three regions of a packet on the wire, cut by the header's lengths
WireExtras(e) == BufSlice(e.payload, 0, e.header.extrasLength)

WireKey(e) ==
  BufSlice(e.payload, e.header.extrasLength,
           e.header.extrasLength + e.header.keyLength)

WireBody(e) ==
  BufSliceFrom(e.payload, e.header.extrasLength + e.header.keyLength)

(**************************** outgoing datagrams ***************************)
_requestSASLMechs(st) ==
  LET header == [createHeader EXCEPT !.magic = 128, !.opcode = 32]
  IN  ConnSend(st, header, <<>>)

\* mutant: the first mechanism the server offered is the one asked for
_requestSASLAuth_Offered(st, mechs) ==
  LET key    == Utf8Encode(mechs[1])
      body   == Utf8Encode(SaslPlainResponse(opts.bucket, opts.password))
      header == [createHeader EXCEPT !.magic = 128, !.opcode = 33,
                                     !.keyLength = Len(key),
                                     !.dataLength = Len(key) + Len(body)]
  IN  ConnSend(st, header, <<key, body>>)

\* mutant: the mechanism name is left out of the authenticate request
_requestSASLAuth_NoKey(st, mechs) ==
  LET body   == Utf8Encode(SaslPlainResponse(opts.bucket, opts.password))
      header == [createHeader EXCEPT !.magic = 128, !.opcode = 33,
                                     !.dataLength = Len(body)]
  IN  ConnSend(st, header, <<body>>)

_requestSASLAuth(st, mechs) ==
  LET key    == Utf8Encode(PLAIN)
      body   == Utf8Encode(SaslPlainResponse(opts.bucket, opts.password))
      header == [createHeader EXCEPT !.magic = 128, !.opcode = 33,
                                     !.keyLength = Len(key),
                                     !.dataLength = Len(key) + Len(body)]
  IN  ConnSend(st, header, <<key, body>>)

\* JavaScript truthiness of mode.backfill (a number or undefined) and of
\* mode.vbuckets (an array, the empty one too, or undefined)
TruthyNumber(v) == v # <<>> /\ v[1] # 0

TruthyArray(v) == v # <<>>

\* the flag word of the mode request, from the properties setMode reads
ModeFlags(m) ==
    (IF TruthyNumber(m.backfill) THEN 1 ELSE 0)
  + (IF m.dump THEN 2 ELSE 0)
  + (IF TruthyArray(m.vbuckets) THEN 4 ELSE 0)
  + (IF m.takover THEN 8 ELSE 0)
  + (IF m.enableAcks THEN 16 ELSE 0)
  + (IF m.keysOnly THEN 32 ELSE 0)
  + (IF m.registred THEN 128 ELSE 0)

RECURSIVE VbucketChunks(_)
VbucketChunks(vbuckets) ==
  IF vbuckets = <<>> THEN <<>>
  ELSE <<createUInt16BE(Head(vbuckets))>> \o VbucketChunks(Tail(vbuckets))

\* mutant: the vbucket list is written ahead of the backfill position
ModeChunks_VbucketsFirst(m) ==
    (IF TruthyArray(m.vbuckets)
     THEN <<createUInt16BE(Len(m.vbuckets[1]))>> \o VbucketChunks(m.vbuckets[1])
     ELSE <<>>)
 \o (IF TruthyNumber(m.backfill) THEN <<Int64Buffer(m.backfill[1])>> ELSE <<>>)

\* the chunks of the mode request's body
ModeChunks(m) ==
    (IF TruthyNumber(m.backfill) THEN <<Int64Buffer(m.backfill[1])>> ELSE <<>>)
 \o (IF TruthyArray(m.vbuckets)
     THEN <<createUInt16BE(Len(m.vbuckets[1]))>> \o VbucketChunks(m.vbuckets[1])
     ELSE <<>>)

\* new Buffer(this.opts.name || 0)
ModeKey == IF opts.name = <<>> THEN <<>> ELSE Utf8Encode(opts.name)

\* mutant: the header's total body length leaves the key out
ModeRequest_KeyUncounted(st, m) ==
  LET st1    == [st EXCEPT !.mode = <<m>>]
      extras == createUInt32BE(ModeFlags(m))
      key    == ModeKey
      body   == Concat(ModeChunks(m))
      header == [createHeader EXCEPT
                   !.magic = 128, !.opcode = 64,
                   !.extrasLength = Len(extras),
                   !.keyLength = Len(key),
                   !.dataLength = Len(extras) + Len(body)]
  IN  ConnSend(st1, header, <<extras, key, body>>)

\* setMode past its guard: record the mode and send the 0x40 request
ModeRequest(st, m) ==
  LET st1    == [st EXCEPT !.mode = <<m>>]
      extras == createUInt32BE(ModeFlags(m))
      key    == ModeKey
      body   == Concat(ModeChunks(m))
      header == [createHeader EXCEPT
                   !.magic = 128, !.opcode = 64,
                   !.extrasLength = Len(extras),
                   !.keyLength = Len(key),
                   !.dataLength = Len(extras) + Len(key) + Len(body)]
  IN  ConnSend(st1, header, <<extras, key, body>>)

\* mutant: setMode without its guard on _connected
setMode_Unguarded(st, m) == IF st.thrown THEN st ELSE ModeRequest(st, m)

setMode(st, m) ==
  IF st.thrown \/ ~st.connected THEN st ELSE ModeRequest(st, m)

(******************************* subscribers *******************************)
\* this.emit(name, ...args).  An 'error' nobody listens for is thrown by the
\* emitter.  The subscriber of 'connect' may call setMode (subs.connect is the
\* mode it passes), as the README's example does.
Emit(st, name, args) ==
  IF st.thrown THEN st
  ELSE IF name = "error" /\ ~subs.error THEN Throw(st, args[1])
  ELSE LET st1 == Did(st, [kind |-> "emit", name |-> name, args |-> args])
       IN  IF name = "connect" /\ subs.connect # <<>>
           THEN setMode(Did(st1, [kind |-> "in", by |-> "subscriber",
                                  name |-> "setMode", args |-> subs.connect]),
                        subs.connect[1])
           ELSE st1

(**************************** lifecycle handlers ***************************)
\* mutant: the credentials are sent along with the mechanism request
_onConnect_WithAuth(st) == _requestSASLAuth(_requestSASLMechs(st), <<>>)

_onConnect(st) == _requestSASLMechs(st)

_onError(st, err) == Emit([st EXCEPT !.connected = FALSE], "error", <<err>>)

_onClose(st) == Emit([st EXCEPT !.connected = FALSE], "close", <<>>)

_onEnd(st) == Emit([st EXCEPT !.connected = FALSE], "end", <<>>)

(**************************** incoming datagrams ***************************)
\* new Error(status)
NewError(message) == [name |-> "Error", message |-> message]

\* what a read past the end of a Buffer throws
RangeError == [name |-> "RangeError", message |-> <<>>]

\* mutant: `connect` is emitted before the constructor's mode is requested
_handleSASLAuth_ConnectFirst(st, header, extras, key, body) ==
  LET status == Utf8Decode(body)
  IN  IF status = <<>>
      THEN LET st1 == Emit([st EXCEPT !.connected = TRUE], "connect", <<>>)
           IN  IF opts.mode # <<>> THEN setMode(st1, opts.mode[1]) ELSE st1
      ELSE ConnClose(_onError(st, NewError(status)))

\* mutant: a refused authentication is retried with the same credentials
_handleSASLAuth_Retry(st, header, extras, key, body) ==
  LET status == Utf8Decode(body)
  IN  IF status = <<>>
      THEN LET st1 == [st EXCEPT !.connected = TRUE]
               st2 == IF opts.mode # <<>> THEN setMode(st1, opts.mode[1]) ELSE st1
           IN  Emit(st2, "connect", <<>>)
      ELSE _requestSASLAuth(st, <<>>)

_handleSASLAuth(st, header, extras, key, body) ==
  LET status == Utf8Decode(body)
  IN  IF status = <<>>
      THEN LET st1 == [st EXCEPT !.connected = TRUE]
               st2 == IF opts.mode # <<>> THEN setMode(st1, opts.mode[1]) ELSE st1
           IN  Emit(st2, "connect", <<>>)
      ELSE ConnClose(_onError(st, NewError(status)))

_handleSASLMechs(st, header, extras, key, body) ==
  LET mechs == SplitSpace(AsciiDecode(extras), <<>>)
  IN  _requestSASLAuth(st, mechs)

\* the four leading fields every TAP event carries in its extras
CanReadTapExtras(extras) ==
  CanRead(extras, 0, 2) /\ CanRead(extras, 2, 2) /\ CanRead(extras, 4, 1)

TapExtras(extras) ==
  [engine   |-> readUInt16BE(extras, 0),
   flags    |-> readUInt16BE(extras, 2),
   ttl      |-> readUInt8(extras, 4),
   reserved |-> BufSlice(extras, 5, 8)]

\* key.slice(0, metaLength)
Metas(key, metaLength) == BufSlice(key, 0, metaLength)

\* Buffer.concat([key.slice(metaLength, key.length), body.slice(0, metaLength)])
\*   .toString('utf8')
\* mutant: the key is not completed from the front of the body
ItemKey_NoBodyPrefix(key, body, metaLength) ==
  Utf8Decode(BufSlice(key, metaLength, Len(key)))

ItemKey(key, body, metaLength) ==
  Utf8Decode(BufSlice(key, metaLength, Len(key)) \o BufSlice(body, 0, metaLength))

\* body.slice(metaLength).toString('utf8')
ItemBody(body, metaLength) == Utf8Decode(BufSliceFrom(body, metaLength))

_handleMutation(st, header, extras, key, body) ==
  IF ~(CanReadTapExtras(extras) /\ CanRead(extras, 8, 4) /\ CanRead(extras, 12, 4))
  THEN Throw(st, RangeError)
  ELSE LET misc == [header |-> HeaderToObject(header),
                    extras |-> TapExtras(extras) @@
                               [itemFlags  |-> readUInt32BE(extras, 8),
                                itemExpiry |-> readUInt32BE(extras, 12)]]
           metaLength == misc.extras.engine
       IN  Emit(st, "mutation",
                <<Metas(key, metaLength), ItemKey(key, body, metaLength),
                  ItemBody(body, metaLength), misc>>)

_handleDelete(st, header, extras, key, body) ==
  IF ~CanReadTapExtras(extras) THEN Throw(st, RangeError)
  ELSE LET misc == [header |-> HeaderToObject(header), extras |-> TapExtras(extras)]
           metaLength == misc.extras.engine
       IN  Emit(st, "delete",
                <<Metas(key, metaLength), ItemKey(key, body, metaLength), misc>>)

_handleFlush(st, header, extras, key, body) ==
  IF ~CanReadTapExtras(extras) THEN Throw(st, RangeError)
  ELSE Emit(st, "flush",
            <<[header |-> HeaderToObject(header), extras |-> TapExtras(extras)]>>)

\* mutant: the two close flags read each other's bit
OpaqueFlags_Swapped(w) ==
  [enableAcks        |-> BitAnd(w, 1),
   startBackfill     |-> BitAnd(w, 2),
   enableCheckpoints |-> BitAnd(w, 4),
   openChekpoint     |-> BitAnd(w, 8),
   startOnlineUpdate |-> BitAnd(w, 16),
   stopOnlineUpdate  |-> BitAnd(w, 32),
   closeStream       |-> BitAnd(w, 128),
   closeBackfill     |-> BitAnd(w, 64)]

\* the flags record of an opaque event, from the word at body offset 0
OpaqueFlags(w) ==
  [enableAcks        |-> BitAnd(w, 1),
   startBackfill     |-> BitAnd(w, 2),
   enableCheckpoints |-> BitAnd(w, 4),
   openChekpoint     |-> BitAnd(w, 8),
   startOnlineUpdate |-> BitAnd(w, 16),
   stopOnlineUpdate  |-> BitAnd(w, 32),
   closeStream       |-> BitAnd(w, 64),
   closeBackfill     |-> BitAnd(w, 128)]

_handleOpaque(st, header, extras, key, body) ==
  IF ~(CanReadTapExtras(extras) /\ CanRead(body, 0, 4)) THEN Throw(st, RangeError)
  ELSE LET misc == [header |-> HeaderToObject(header), extras |-> TapExtras(extras)]
       IN  Emit(st, "opaque", <<OpaqueFlags(readUInt32BE(body, 0)), misc>>)

\* Client.handlers: the opcodes that have a handler
handlers == {32, 33, 65, 66, 67, 68}

\* mutant: the handlers of 0x43 and 0x44 are registered under each other's opcode
CallHandler_Swapped(st, header, extras, key, body) ==
  CASE header.opcode = 32 -> _handleSASLMechs(st, header, extras, key, body)
    [] header.opcode = 33 -> _handleSASLAuth(st, header, extras, key, body)
    [] header.opcode = 65 -> _handleMutation(st, header, extras, key, body)
    [] header.opcode = 66 -> _handleDelete(st, header, extras, key, body)
    [] header.opcode = 67 -> _handleOpaque(st, header, extras, key, body)
    [] header.opcode = 68 -> _handleFlush(st, header, extras, key, body)

CallHandler(st, header, extras, key, body) ==
  CASE header.opcode = 32 -> _handleSASLMechs(st, header, extras, key, body)
    [] header.opcode = 33 -> _handleSASLAuth(st, header, extras, key, body)
    [] header.opcode = 65 -> _handleMutation(st, header, extras, key, body)
    [] header.opcode = 66 -> _handleDelete(st, header, extras, key, body)
    [] header.opcode = 67 -> _handleFlush(st, header, extras, key, body)
    [] header.opcode = 68 -> _handleOpaque(st, header, extras, key, body)

\* mutant: an opcode without a handler is decoded as a flush
_onData_DefaultHandler(st, header, extras, key, body) ==
  LET st1 == Emit(st, "data", <<header, extras, key, body>>)
  IN  IF st1.thrown THEN st1
      ELSE IF header.opcode \in handlers
      THEN CallHandler(st1, header, extras, key, body)
      ELSE _handleFlush(st1, header, extras, key, body)

\* mutant: the raw notification follows the opcode's handler
_onData_HandlerFirst(st, header, extras, key, body) ==
  LET st1 == IF header.opcode \in handlers
             THEN CallHandler(st, header, extras, key, body)
             ELSE st
  IN  Emit(st1, "data", <<header, extras, key, body>>)

_onData(st, header, extras, key, body) ==
  LET st1 == Emit(st, "data", <<header, extras, key, body>>)
  IN  IF ~st1.thrown /\ header.opcode \in handlers
      THEN CallHandler(st1, header, extras, key, body)
      ELSE st1

(*************************** the client's inputs ***************************)
\* a mode configuration: every property a caller may set, unset ones absent
NoMode ==
  [backfill |-> <<>>, dump |-> FALSE, vbuckets |-> <<>>, takeover |-> FALSE,
   takover |-> FALSE, enableAcks |-> FALSE, keysOnly |-> FALSE, onlyKeys |-> FALSE,
   registered |-> FALSE, registred |-> FALSE]

\* the README's example: { backfill: -1, onlyKeys: true }
ReadmeMode == [NoMode EXCEPT !.backfill = <<-1>>, !.onlyKeys = TRUE]

\* the mode of the spec's encoding scenario: { backfill: -1, keysOnly: true }
KeysMode == [NoMode EXCEPT !.backfill = <<-1>>, !.keysOnly = TRUE]

DumpMode == [NoMode EXCEPT !.dump = TRUE]

\* a packet as the transport hands it to _onData
InPacket(opcode, extras, key, body) ==
  [header |-> [createHeader EXCEPT !.magic = 129, !.opcode = opcode,
                                   !.extrasLength = Len(extras),
                                   !.keyLength = Len(key),
                                   !.dataLength = Len(extras) + Len(key) + Len(body)],
   extras |-> extras, key |-> key, body |-> body]

\* the extras of a TAP event with item-meta length m: 16 bytes for a mutation,
\* 8 for the others
TapExtras16(m) == createUInt16BE(m) \o <<0, 1, 7, 0, 0, 0, 0, 0, 0, 2, 0, 0, 0, 9>>

TapExtras8(m) == createUInt16BE(m) \o <<0, 1, 7, 0, 0, 0>>

MechsPacket == InPacket(32, <<>>, <<>>, PLAIN)

AuthOkPacket == InPacket(33, <<>>, <<>>, <<>>)

\* a refusal whose text is "A e-acute"
AuthFailPacket == InPacket(33, <<>>, <<>>, <<65, 195, 169>>)

MainPackets ==
  {MechsPacket, AuthOkPacket, AuthFailPacket,
   InPacket(65, TapExtras16(1), <<1, 102>>, <<111, 98>>),
   InPacket(65, <<>>, <<102>>, <<98>>),
   InPacket(66, TapExtras8(1), <<1, 102>>, <<111>>),
   InPacket(67, TapExtras8(0), <<>>, <<>>),
   InPacket(68, TapExtras8(0), <<>>, <<0, 0, 0, 5>>),
   InPacket(153, TapExtras8(0), <<>>, <<7>>)}

\* the modes the API caller of the session run passes to setMode
ApiModes == {KeysMode}

TransportErrors == {NewError(<<69>>)}

BaseOpts ==
  [host |-> <<104>>, port |-> <<>>, name |-> <<116>>, bucket |-> <<98>>,
   password |-> <<112>>, mode |-> <<>>]

(********************************* actions *********************************)
Input(name, args) ==
  [kind |-> "in", by |-> "env", name |-> name, args |-> args,
   at |-> connected, md |-> mode]

\* the inputs handled so far
Steps == Cardinality({i \in 1..Len(trace) : trace[i].kind = "in" /\ trace[i].by = "env"})

Commit(inp, st) ==
  /\ connected' = st.connected
  /\ mode' = st.mode
  /\ trace' = trace \o <<inp>> \o st.out
  /\ UNCHANGED <<opts, subs, arg>>

\* Client.prototype.connect
Connect ==
  /\ Steps < MaxSteps
  /\ Commit(Input("connect", <<>>),
            ConnConnect(Start, opts.host,
                        IF TruthyNumber(opts.port) THEN opts.port[1] ELSE DefaultPort))

\* Client.prototype.close
Close ==
  /\ Steps < MaxSteps
  /\ Commit(Input("close", <<>>), ConnClose(Start))

SetMode(m) ==
  /\ Steps < MaxSteps
  /\ Commit(Input("setMode", <<m>>), setMode(Start, m))

OnConnect ==
  /\ Steps < MaxSteps
  /\ Commit(Input("onConnect", <<>>), _onConnect(Start))

OnError(err) ==
  /\ Steps < MaxSteps
  /\ Commit(Input("onError", <<err>>), _onError(Start, err))

OnClose ==
  /\ Steps < MaxSteps
  /\ Commit(Input("onClose", <<>>), _onClose(Start))

OnEnd ==
  /\ Steps < MaxSteps
  /\ Commit(Input("onEnd", <<>>), _onEnd(Start))

OnData(p) ==
  /\ Steps < MaxSteps
  /\ Commit(Input("onData", <<p.header, p.extras, p.key, p.body>>),
            _onData(Start, p.header, p.extras, p.key, p.body))

(*********************** the protocol session's runs ***********************)
Init ==
  /\ opts \in {[BaseOpts EXCEPT !.mode = m] : m \in {<<>>, <<DumpMode>>}}
  /\ subs \in [error : BOOLEAN, connect : {<<>>, <<ReadmeMode>>}]
  /\ connected = FALSE
  /\ mode = <<>>
  /\ trace = <<>>
  /\ arg = <<>>

Next ==
  \/ Connect
  \/ Close
  \/ \E m \in ApiModes : SetMode(m)
  \/ OnConnect
  \/ \E err \in TransportErrors : OnError(err)
  \/ OnClose
  \/ OnEnd
  \/ \E p \in MainPackets : OnData(p)

Spec == Init /\ [][Next]_vars

(************************ the event decoder's runs *************************)
\* sequences over S of length at most n
RECURSIVE SeqsUpTo(_, _)
SeqsUpTo(S, n) ==
  IF n = 0 THEN {<<>>}
  ELSE LET shorter == SeqsUpTo(S, n - 1)
       IN  shorter \cup {Append(q, x) : q \in shorter, x \in S}

\* 'f' and the two bytes of e-acute
ItemBytes == {102, 195, 169}

Regions == SeqsUpTo(ItemBytes, MaxLen)

\* item-meta lengths: up to MaxMeta, and one that needs the field's high byte
MetaLengths == (0..MaxMeta) \cup {257}

ItemPackets ==
  {InPacket(65, TapExtras16(m), k, b) : m \in MetaLengths, k \in Regions, b \in Regions}
  \cup
  {InPacket(66, ex, k, b) : ex \in {TapExtras8(m) : m \in MetaLengths}
                                    \cup {TapExtras16(m) : m \in MetaLengths},
                            k \in Regions, b \in Regions}

\* the spec's decoding scenario: meta length 3, key 01 02 03 "foo", body "barbaz"
ScenarioPacket ==
  InPacket(65, TapExtras16(3), <<1, 2, 3, 102, 111, 111>>, <<98, 97, 114, 98, 97, 122>>)

OpaquePackets ==
  {InPacket(68, TapExtras8(0), <<>>, high \o <<low>>) :
     high \in {<<0, 0, 0>>, <<255, 255, 255>>, <<0, 0, 1>>}, low \in 0..255}

\* packets too short for the reads of their handler
ShortPackets ==
  {InPacket(65, TapExtras8(1), <<102>>, <<102>>),
   InPacket(66, <<0, 1, 0, 1>>, <<102>>, <<102>>),
   InPacket(68, TapExtras8(0), <<>>, <<0, 0, 5>>)}

DecodePackets == ItemPackets \cup {ScenarioPacket} \cup OpaquePackets \cup ShortPackets

InitDecode ==
  /\ opts = BaseOpts
  /\ subs = [error |-> TRUE, connect |-> <<>>]
  /\ connected = FALSE
  /\ mode = <<>>
  /\ trace = <<>>
  /\ arg \in {<<p>> : p \in DecodePackets}

NextDecode == OnData(arg[1])

SpecDecode == InitDecode /\ [][NextDecode]_vars

(************************** the mode request's runs ************************)
VbucketIds == {1, 258}

VbucketLists == {<<>>} \cup {<<l>> : l \in SeqsUpTo(VbucketIds, MaxVb)}

\* every combination of the properties that carry a flag
FlagConfigs ==
  [backfill : {<<>>, <<-1>>, <<0>>}, dump : BOOLEAN, vbuckets : {<<>>, << <<>> >>},
   takeover : BOOLEAN, takover : BOOLEAN, enableAcks : BOOLEAN, keysOnly : BOOLEAN,
   onlyKeys : BOOLEAN, registered : BOOLEAN, registred : BOOLEAN]

\* every combination of the properties that carry a body segment
BodyConfigs ==
  {[NoMode EXCEPT !.backfill = b, !.vbuckets = v, !.keysOnly = k] :
     b \in {<<>>, <<-1>>, <<0>>, <<1>>, <<-258>>, <<66051>>},
     v \in VbucketLists, k \in BOOLEAN}

ModeConfigs == FlagConfigs \cup BodyConfigs

\* stream names: none, and "t e-acute"
StreamNames == {<<>>, <<116, 233>>}

InitMode ==
  /\ opts \in {[BaseOpts EXCEPT !.name = n] : n \in StreamNames}
  /\ subs = [error |-> TRUE, connect |-> <<>>]
  /\ connected = FALSE
  /\ mode = <<>>
  /\ trace = <<>>
  /\ arg \in {<<m>> : m \in ModeConfigs}

NextMode ==
  \/ OnData(AuthOkPacket)
  \/ SetMode(arg[1])

SpecMode == InitMode /\ [][NextMode]_vars

(*************************** the handshake's runs **************************)
\* what a 0x20 response may carry in a region: nothing, "PLAIN",
\* "CRAM-MD5 PLAIN", "CRAM-MD5", and a non-ASCII byte followed by a space
MechLists ==
  {<<>>, PLAIN,
   <<67, 82, 65, 77, 45, 77, 68, 53, 32, 80, 76, 65, 73, 78>>,
   <<67, 82, 65, 77, 45, 77, 68, 53>>,
   <<208, 32>>}

MechsResponses == {InPacket(32, ex, k, b) : ex \in MechLists, k \in MechLists, b \in MechLists}

\* opts.bucket and opts.password: empty, ASCII, with an e-acute, and a lone
\* high surrogate
Buckets == {<<>>, <<98>>, <<98, 233>>, <<55296>>}

Passwords == {<<>>, <<112>>}

\* opts.port: left out, 0, and a port of its own
Ports == {<<>>, <<0>>, <<8091>>}

InitMechs ==
  /\ opts \in {[BaseOpts EXCEPT !.bucket = b, !.password = p, !.port = q] :
                b \in Buckets, p \in Passwords, q \in Ports}
  /\ subs = [error |-> TRUE, connect |-> <<>>]
  /\ connected = FALSE
  /\ mode = <<>>
  /\ trace = <<>>
  /\ arg \in {<<p>> : p \in MechsResponses}

NextMechs == Connect \/ OnConnect \/ OnData(arg[1])

SpecMechs == InitMechs /\ [][NextMechs]_vars

(*************************** reading the trace ****************************)
IsIn(e) == e.kind = "in"

IsEnvIn(e) == e.kind = "in" /\ e.by = "env"

IsSend(e) == e.kind = "send"

IsSendOf(e, opcode) == e.kind = "send" /\ e.header.opcode = opcode

IsEmit(e) == e.kind = "emit"

IsEmitOf(e, name) == e.kind = "emit" /\ e.name = name

\* an inbound packet handed to _onData, and its parts
IsPacketIn(e) == IsEnvIn(e) /\ e.name = "onData"

IsPacketInOf(e, opcode) == IsPacketIn(e) /\ e.args[1].opcode = opcode

PacketBody(e) == e.args[4]

\* an authenticate response that reports success
IsAuthOk(e) == IsPacketInOf(e, 33) /\ PacketBody(e) = <<>>

\* a transport signal that ends the authenticated session
IsDrop(e) == IsEnvIn(e) /\ e.name \in {"onError", "onClose", "onEnd"}

IsSetModeCall(e) == IsIn(e) /\ e.name = "setMode"

Sends == SelectSeq(trace, IsSend)

EnvIdx == {i \in 1..Len(trace) : IsEnvIn(trace[i])}

\* the last entry of the step that the input at i starts
StepLast(i) ==
  LET later == {j \in (i + 1)..Len(trace) : IsEnvIn(trace[j])}
  IN  IF later = {} THEN Len(trace)
      ELSE (CHOOSE j \in later : \A k \in later : j <= k) - 1

\* what the handler of the input at i did
Outputs(i) == SubSeq(trace, i + 1, StepLast(i))

\* _connected and this.mode once the handler of the input at i has returned
ConnAfter(i) == IF StepLast(i) = Len(trace) THEN connected ELSE trace[StepLast(i) + 1].at

ModeAfter(i) == IF StepLast(i) = Len(trace) THEN mode ELSE trace[StepLast(i) + 1].md

(****************************** C1: handshake ******************************)
\* the run of the handshake scenario: the transport connects, the server
\* answers with a 0x20 response and then with an empty-bodied 0x21 response,
\* and nothing else is asked of the client (connect() itself aside)
NotConnectCall(e) == IsIn(e) /\ e.name # "connect"

HandshakeRun ==
  LET ins == SelectSeq(trace, NotConnectCall)
  IN  /\ Len(ins) = 3
      /\ IsEnvIn(ins[1]) /\ ins[1].name = "onConnect"
      /\ IsPacketInOf(ins[2], 32)
      /\ IsAuthOk(ins[3])

NotModeRequest(e) == IsSend(e) /\ e.header.opcode # 64

IsModeRequest(e) == IsSendOf(e, 64)

IsConnectEmit(e) == IsEmitOf(e, "connect")

\* the two handshake requests, in order, the second only after the 0x20 response
HandshakeRequests(reqs) ==
  /\ Len(reqs) = 2
  /\ reqs[1].header.opcode = 32
  /\ WireExtras(reqs[1]) = <<>> /\ WireKey(reqs[1]) = <<>> /\ WireBody(reqs[1]) = <<>>
  /\ reqs[2].header.opcode = 33
  /\ WireKey(reqs[2]) = <<80, 76, 65, 73, 78>>
  /\ WireBody(reqs[2]) # <<>>
  /\ \A i \in 1..Len(trace) :
       IsSendOf(trace[i], 33) => \E j \in 1..(i - 1) : IsPacketInOf(trace[j], 32)

\* C1 as stated: in the handshake run the client sends exactly two requests,
\* 0x20 with empty extras, key and body, then (after the 0x20 response) 0x21
\* with key "PLAIN" and a non-empty body, and ends connected having emitted
\* `connect` exactly once.
C1_ExactlyTwoRequests ==
  HandshakeRun =>
    /\ HandshakeRequests(Sends)
    /\ connected
    /\ Len(SelectSeq(trace, IsConnectEmit)) = 1

\* C1 amended: in the handshake run the client sends exactly the two handshake
\* requests, 0x20 then (after the 0x20 response) 0x21 with key "PLAIN" and a
\* non-empty body; it sends one more request, the 0x40 mode request, after the
\* 0x21 response, exactly when a mode was supplied at construction; it ends
\* connected having emitted `connect` exactly once.
C1_Handshake ==
  HandshakeRun =>
    /\ HandshakeRequests(SelectSeq(trace, NotModeRequest))
    /\ Len(SelectSeq(trace, IsModeRequest)) = (IF opts.mode # <<>> THEN 1 ELSE 0)
    /\ \A i \in 1..Len(trace) :
         IsModeRequest(trace[i]) => \E j \in 1..(i - 1) : IsAuthOk(trace[j])
    /\ connected
    /\ Len(SelectSeq(trace, IsConnectEmit)) = 1

C1_Witness == HandshakeRun /\ connected /\ Len(Sends) >= 2

(************************ C2: authentication failure ***********************)
IsAuthFail(e) == IsPacketInOf(e, 33) /\ PacketBody(e) # <<>>

\* C2: whenever a 0x21 response with a non-empty body is received, the client
\* emits `error` with that body decoded as UTF-8 as its message, asks the
\* transport to close, is left not connected and emits no `connect`.
C2_AuthFailure ==
  \A i \in EnvIdx :
    IsAuthFail(trace[i]) =>
      LET out == Outputs(i)
      IN  /\ \E k \in 1..Len(out) :
               /\ IsEmitOf(out[k], "error")
               /\ out[k].args[1].message = Utf8Decode(PacketBody(trace[i]))
          /\ \E k \in 1..Len(out) : out[k].kind = "closeReq"
          /\ ConnAfter(i) = FALSE
          /\ \A k \in 1..Len(out) : ~IsConnectEmit(out[k])

(********************* C3: no mode request before auth *********************)
\* an empty-bodied 0x21 response came before entry i, and no transport error,
\* close or end signal since
AuthedAt(i) ==
  \E j \in 1..(i - 1) :
    /\ IsAuthOk(trace[j])
    /\ \A k \in (j + 1)..(i - 1) : ~IsDrop(trace[k])

\* C3: no 0x40 request is sent before authentication has succeeded, and a
\* setMode call made while the session is not authenticated sends nothing and
\* leaves the recorded mode as it was.
C3_NoModeBeforeAuth ==
  /\ \A i \in 1..Len(trace) : IsModeRequest(trace[i]) => AuthedAt(i)
  /\ \A i \in 1..Len(trace) :
       (IsSetModeCall(trace[i]) /\ ~AuthedAt(i)) =>
         IF i = Len(trace) THEN mode = trace[i].md
         ELSE ~IsSend(trace[i + 1]) /\ trace[i + 1].md = trace[i].md

\* setMode called after a session was authenticated and then dropped
C3_Witness ==
  \E j, k, i \in 1..Len(trace) :
    /\ j < k /\ k < i
    /\ IsAuthOk(trace[j]) /\ IsDrop(trace[k])
    /\ IsSetModeCall(trace[i]) /\ ~AuthedAt(i)

(**************** C4: the mode request and the notification ****************)
\* C4: on an empty-bodied 0x21 response, a client constructed with a mode sends
\* the 0x40 request before `connect` is delivered; a client constructed
\* without one emits `connect`, and every 0x40 request it ever sends answers
\* an explicit setMode call.
C4_ModeBeforeConnect ==
  /\ \A i \in EnvIdx :
       IsAuthOk(trace[i]) =>
         LET out == Outputs(i)
         IN  IF opts.mode # <<>>
             THEN /\ Len(out) >= 3
                  /\ IsEmitOf(out[1], "data")
                  /\ IsModeRequest(out[2])
                  /\ WireExtras(out[2]) = createUInt32BE(ModeFlags(opts.mode[1]))
                  /\ IsConnectEmit(out[3])
                  /\ out[3].md = opts.mode
             ELSE /\ Len(out) >= 2
                  /\ IsEmitOf(out[1], "data")
                  /\ IsConnectEmit(out[2])
  /\ opts.mode = <<>> =>
       \A i \in 1..Len(trace) :
         IsModeRequest(trace[i]) => i > 1 /\ IsSetModeCall(trace[i - 1])

\* a client constructed with a mode has authenticated
C4_Witness ==
  /\ opts.mode # <<>>
  /\ \E i \in EnvIdx : IsAuthOk(trace[i]) /\ IsConnectEmit(trace[i + 3])

(*************************** C8: unknown opcodes ***************************)
IsDecodedOrSessionEmit(e) ==
  IsEmit(e) /\ e.name \in {"mutation", "delete", "flush", "opaque", "connect", "error"}

\* C8: a packet whose opcode is none of 0x20, 0x21, 0x41..0x44 produces no
\* decoded event and no connect or error notification, sends nothing and leaves
\* _connected and the recorded mode as they were.
C8_UnknownOpcode ==
  \A i \in EnvIdx :
    (IsPacketIn(trace[i]) /\ trace[i].args[1].opcode \notin {32, 33, 65, 66, 67, 68}) =>
      LET out == Outputs(i)
      IN  /\ \A k \in 1..Len(out) : ~IsDecodedOrSessionEmit(out[k]) /\ ~IsSend(out[k])
          /\ ConnAfter(i) = trace[i].at
          /\ ModeAfter(i) = trace[i].md

\* opcode 0x99 arrives at a connected client whose mode is recorded
C8_Witness ==
  \E i \in EnvIdx :
    IsPacketInOf(trace[i], 153) /\ trace[i].at /\ trace[i].md # <<>>

(************************ C9: the raw notification *************************)
IsDataEmit(e) == IsEmitOf(e, "data")

\* C9: every inbound packet is notified raw exactly once, with its header,
\* extras, key and body unchanged, before anything else its handling does and
\* while _connected and the recorded mode are still as they were.
C9_RawDataFirst ==
  \A i \in EnvIdx :
    IsPacketIn(trace[i]) =>
      LET out == Outputs(i)
      IN  /\ Len(out) >= 1
          /\ IsDataEmit(out[1])
          /\ out[1].args = trace[i].args
          /\ out[1].at = trace[i].at /\ out[1].md = trace[i].md
          /\ Len(SelectSeq(out, IsDataEmit)) = 1

\* a packet whose handling changes _connected and emits more has arrived
C9_Witness ==
  \E i \in EnvIdx :
    /\ IsAuthOk(trace[i])
    /\ Len(Outputs(i)) >= 2
    /\ ConnAfter(i) # trace[i].at

(************************ C5: metadata reassembly **************************)
\* the first n elements of a region, and the rest, n clamped to its length
Take(region, n) == [i \in 1..Min(n, Len(region)) |-> region[i]]

Drop(region, n) ==
  [i \in 1..(Len(region) - Min(n, Len(region))) |-> region[i + Min(n, Len(region))]]

\* a mutation or delete packet whose extras are long enough for its handler
IsItemPacketIn(e) ==
  \/ IsPacketInOf(e, 65) /\ Len(e.args[2]) >= 16
  \/ IsPacketInOf(e, 66) /\ Len(e.args[2]) >= 5

\* the item-meta length in the extras of a packet
MetaLengthOf(e) == e.args[2][1] * 256 + e.args[2][2]

\* C5: a mutation or delete packet with meta length m, key region K and body
\* region B is notified with meta K[0:m] and, as UTF-8 text, key K[m:] B[0:m];
\* a mutation carries value B[m:] as well, a delete carries no value.
C5_MetaReassembly ==
  \A i \in EnvIdx :
    IsItemPacketIn(trace[i]) =>
      LET m   == MetaLengthOf(trace[i])
          K   == trace[i].args[3]
          B   == trace[i].args[4]
          out == Outputs(i)
      IN  /\ Len(out) = 2
          /\ IsEmit(out[2])
          /\ out[2].args[1] = Take(K, m)
          /\ out[2].args[2] = Utf8Decode(Drop(K, m) \o Take(B, m))
          /\ IF trace[i].args[1].opcode = 65
             THEN /\ out[2].name = "mutation"
                  /\ Len(out[2].args) = 4
                  /\ out[2].args[3] = Utf8Decode(Drop(B, m))
             ELSE /\ out[2].name = "delete"
                  /\ Len(out[2].args) = 3

\* a mutation whose meta length cuts both its key region and its body region
C5_Witness ==
  \E i \in EnvIdx :
    /\ IsPacketInOf(trace[i], 65) /\ IsItemPacketIn(trace[i])
    /\ MetaLengthOf(trace[i]) = 1
    /\ Len(trace[i].args[3]) = 2 /\ Len(trace[i].args[4]) = 2
    /\ Len(Outputs(i)) = 2 /\ IsEmitOf(Outputs(i)[2], "mutation")

(**************************** C6: the flag word ****************************)
\* bit n of the last byte of a 4-byte word
LowBit(word, n) == (word[4] \div (2 ^ n)) % 2 = 1

\* what the caller asked for, under either spelling of a property
BackfillSupplied(m) == m.backfill # <<>>

TakeoverRequested(m) == m.takeover \/ m.takover

KeysOnlyRequested(m) == m.keysOnly \/ m.onlyKeys

RegisteredRequested(m) == m.registered \/ m.registred

\* C6: the extras word of the 0x40 request of an honoured setMode(m) has bit 0
\* set exactly when a backfill start position is supplied, bit 1 when dump,
\* bit 2 when a vbucket list is supplied, bit 3 when takeover, bit 4 when acks,
\* bit 5 when keys-only and bit 7 when registered-client is requested; bit 6
\* and bits 8-31 are clear.
C6_FlagWord ==
  \A i \in 2..Len(trace) :
    (IsModeRequest(trace[i]) /\ IsSetModeCall(trace[i - 1])) =>
      LET m == trace[i - 1].args[1]
          w == WireExtras(trace[i])
      IN  /\ Len(w) = 4
          /\ w[1] = 0 /\ w[2] = 0 /\ w[3] = 0
          /\ LowBit(w, 0) = BackfillSupplied(m)
          /\ LowBit(w, 1) = m.dump
          /\ LowBit(w, 2) = (m.vbuckets # <<>>)
          /\ LowBit(w, 3) = TakeoverRequested(m)
          /\ LowBit(w, 4) = m.enableAcks
          /\ LowBit(w, 5) = KeysOnlyRequested(m)
          /\ ~LowBit(w, 6)
          /\ LowBit(w, 7) = RegisteredRequested(m)

(************************ C7: the mode request's body **********************)
\* n as `width` big-endian bytes, two's complement
BigEndian(n, width) ==
  [k \in 1..width |->
     IF width - k >= 4 THEN (IF n < 0 THEN 255 ELSE 0)
     ELSE (n \div (256 ^ (width - k))) % 256]

RECURSIVE VbucketBytes(_)
VbucketBytes(ids) ==
  IF ids = <<>> THEN <<>> ELSE BigEndian(Head(ids), 2) \o VbucketBytes(Tail(ids))

\* C7: the body of every 0x40 request is the 8-byte signed big-endian backfill
\* position (there exactly when flag bit 0 is set) followed by a 2-byte count n
\* and n 2-byte vbucket ids in the order supplied (there exactly when flag bit
\* 2 is set); its key is the configured stream name, empty by default.
C7_ModeBody ==
  \A i \in 1..Len(trace) :
    IsModeRequest(trace[i]) =>
      LET m == trace[i].md[1]
          w == WireExtras(trace[i])
      IN  /\ LowBit(w, 0) => m.backfill # <<>>
          /\ LowBit(w, 2) => m.vbuckets # <<>>
          /\ WireBody(trace[i]) =
               (IF LowBit(w, 0) THEN BigEndian(m.backfill[1], 8) ELSE <<>>)
               \o (IF LowBit(w, 2)
                   THEN BigEndian(Len(m.vbuckets[1]), 2) \o VbucketBytes(m.vbuckets[1])
                   ELSE <<>>)
          /\ WireKey(trace[i]) = Utf8Encode(opts.name)
          /\ opts.name = <<>> => WireKey(trace[i]) = <<>>

\* a named stream's request with a negative position and two vbuckets
C7_Witness ==
  \E i \in 1..Len(trace) :
    /\ IsModeRequest(trace[i])
    /\ opts.name # <<>>
    /\ trace[i].md[1].backfill = <<-258>>
    /\ trace[i].md[1].vbuckets = << <<258, 1>> >>
    /\ Len(WireBody(trace[i])) = 14

(************************** C10: opaque decoding ***************************)
\* bit n of the flag word at body offset 0, read from its last byte
WordBit(body, n) == (body[4] \div (2 ^ n)) % 2 = 1

\* C10: the flags record of an opaque event has enable-acks = bit 0 of the
\* word at body offset 0, start-backfill = bit 1, enable-checkpoints = bit 2,
\* open-checkpoint = bit 3, start-online-update = bit 4, stop-online-update =
\* bit 5, close-stream = bit 6 and close-backfill = bit 7, whatever bits 8-31.
C10_OpaqueFlags ==
  \A i \in EnvIdx :
    (IsPacketInOf(trace[i], 68) /\ Len(trace[i].args[2]) >= 5
                                /\ Len(PacketBody(trace[i])) >= 4) =>
      LET body == PacketBody(trace[i])
          out  == Outputs(i)
      IN  /\ Len(out) = 2
          /\ IsEmitOf(out[2], "opaque")
          /\ out[2].args[1] =
               [enableAcks        |-> WordBit(body, 0),
                startBackfill     |-> WordBit(body, 1),
                enableCheckpoints |-> WordBit(body, 2),
                openChekpoint     |-> WordBit(body, 3),
                startOnlineUpdate |-> WordBit(body, 4),
                stopOnlineUpdate  |-> WordBit(body, 5),
                closeStream       |-> WordBit(body, 6),
                closeBackfill     |-> WordBit(body, 7)]

\* an opaque event with close-stream set, close-backfill clear, high bits set
C10_Witness ==
  \E i \in EnvIdx :
    /\ IsPacketInOf(trace[i], 68)
    /\ PacketBody(trace[i]) = <<255, 255, 255, 64>>
    /\ Len(Outputs(i)) = 2 /\ IsEmitOf(Outputs(i)[2], "opaque")
    /\ Outputs(i)[2].args[1].closeStream

(********************* C11: one mode request a session *********************)
\* C11: at most one 0x40 request is sent per authenticated connection: two
\* 0x40 requests are always separated by a transport error, close or end
\* signal, whether they come from the mode supplied at construction, from the
\* `connect` subscriber or from the API.
C11_OneModeRequest ==
  \A i, j \in 1..Len(trace) :
    (i < j /\ IsModeRequest(trace[i]) /\ IsModeRequest(trace[j])) =>
      \E k \in (i + 1)..(j - 1) : IsDrop(trace[k])

(************************* C12: errors are terminal ************************)
\* an authentication failure or a transport error signal
IsSessionError(e) == IsAuthFail(e) \/ (IsEnvIn(e) /\ e.name = "onError")

\* the caller or the transport starts a new connection
IsReconnect(e) == IsEnvIn(e) /\ e.name \in {"connect", "onConnect"}

\* entry j follows a session error on the same connection
ErroredAt(j) ==
  \E i \in 1..(j - 1) :
    /\ IsSessionError(trace[i])
    /\ \A k \in (i + 1)..j : ~IsReconnect(trace[k])

\* C12: after an authentication failure or a transport error signal, and
\* until a new connection is started, no inbound packet leaves the client
\* connected or makes it emit `connect`, and no 0x40 request is sent.
C12_ErroredTerminal ==
  /\ \A j \in EnvIdx :
       (ErroredAt(j) /\ IsPacketIn(trace[j])) =>
         /\ ConnAfter(j) = FALSE
         /\ \A k \in 1..Len(Outputs(j)) : ~IsConnectEmit(Outputs(j)[k])
  /\ \A j \in 1..Len(trace) : ErroredAt(j) => ~IsModeRequest(trace[j])

(*********************** C13: close() ends the session *********************)
IsCloseCall(e) == IsEnvIn(e) /\ e.name = "close"

\* close() was called before entry i and the client has not authenticated since
ClosedAt(i) ==
  \E j \in 1..(i - 1) :
    /\ IsCloseCall(trace[j])
    /\ \A k \in (j + 1)..(i - 1) : ~IsAuthOk(trace[k])

\* C13: a setMode call made after close() was called sends no packet, even
\* when the transport has not yet signalled close or end.
C13_NoModeAfterClose ==
  \A i \in 1..Len(trace) :
    (IsSetModeCall(trace[i]) /\ ClosedAt(i)) =>
      (i = Len(trace) \/ ~IsSend(trace[i + 1]))

(********************* C14: decoded events and the state *******************)
IsDecodedEmit(e) == IsEmit(e) /\ e.name \in {"mutation", "delete", "flush", "opaque"}

\* the session is streaming when entry i arrives: it has authenticated, has
\* sent a 0x40 request since, and has seen no close() call and no transport
\* error, close or end signal since it authenticated
StreamingAt(i) ==
  \E j \in 1..(i - 1) :
    /\ IsAuthOk(trace[j])
    /\ \E k \in (j + 1)..(i - 1) : IsModeRequest(trace[k])
    /\ \A k \in (j + 1)..(i - 1) : ~IsDrop(trace[k]) /\ ~IsCloseCall(trace[k])

\* C14: a mutation, delete, flush or opaque event is emitted only for a packet
\* that arrives while the session is streaming.
C14_GatedEvents ==
  \A i \in EnvIdx :
    (\E k \in 1..Len(Outputs(i)) : IsDecodedEmit(Outputs(i)[k])) => StreamingAt(i)

(************************ C15: one request in flight ***********************)
IsTransportConnect(e) == IsEnvIn(e) /\ e.name = "onConnect"

IsHandshakeRequest(e) == IsSendOf(e, 32) \/ IsSendOf(e, 33)

IsHandshakeResponse(e) == IsPacketInOf(e, 32) \/ IsPacketInOf(e, 33)

\* handshake requests sent minus handshake responses received among the
\* entries lo..hi of the trace
InFlight(lo, hi) ==
  Cardinality({k \in lo..hi : IsHandshakeRequest(trace[k])})
    - Cardinality({k \in lo..hi : IsHandshakeResponse(trace[k])})

\* C15 as stated: once the transport has connected and until an empty-bodied
\* 0x21 response arrives, after every handled input the number of 0x20 and
\* 0x21 requests sent minus the number of 0x20 and 0x21 responses received is
\* exactly 1, and each such request is sent when that number is 0.
C15_OneInFlight ==
  /\ \A i \in EnvIdx :
       ((\E c \in 1..i : IsTransportConnect(trace[c]))
          /\ \A k \in 1..i : ~IsAuthOk(trace[k])) =>
         InFlight(1, StepLast(i)) = 1
  /\ \A k \in 1..Len(trace) :
       (/\ IsHandshakeRequest(trace[k])
        /\ \E c \in 1..k : IsTransportConnect(trace[c])
        /\ \A j \in 1..k : ~IsAuthOk(trace[j])) =>
         InFlight(1, k - 1) = 0

\* the handshake started by the transport connect signal at c is still running
\* at entry i: no 0x21 response, no further connect signal and no transport
\* error, close or end signal in between
HandshakeFrom(c, i) ==
  /\ c <= i
  /\ IsTransportConnect(trace[c])
  /\ \A k \in (c + 1)..i :
       ~IsPacketInOf(trace[k], 33) /\ ~IsTransportConnect(trace[k]) /\ ~IsDrop(trace[k])

\* C15 amended: counting from a transport connect signal and for as long as
\* no 0x21 response, no further connect signal and no transport error, close
\* or end signal has arrived, after every handled input the number of 0x20 and
\* 0x21 requests sent minus the number of 0x20 and 0x21 responses received is
\* exactly 1, and each such request is sent when that number is 0.
C15_InFlightPerConnection ==
  \A c \in 1..Len(trace) :
    IsTransportConnect(trace[c]) =>
      \A k \in c..Len(trace) :
        /\ (IsEnvIn(trace[k]) /\ HandshakeFrom(c, k)) => InFlight(c, StepLast(k)) = 1
        /\ (IsHandshakeRequest(trace[k]) /\ HandshakeFrom(c, k)) => InFlight(c, k - 1) = 0

\* a handshake in which the server answered 0x20 twice
C15_Witness ==
  \E c, i, j \in EnvIdx :
    /\ c < i /\ i < j
    /\ HandshakeFrom(c, j)
    /\ IsPacketInOf(trace[i], 32) /\ IsPacketInOf(trace[j], 32)
    /\ InFlight(c, Len(trace)) = 1

(************************* C16: streaming is receive-only ******************)
IsEventPacketIn(e) == IsPacketIn(e) /\ e.args[1].opcode \in {65, 66, 67, 68}

\* the event a handled opcode is decoded into
VariantOf(opcode) ==
  CASE opcode = 65 -> "mutation"
    [] opcode = 66 -> "delete"
    [] opcode = 67 -> "flush"
    [] opcode = 68 -> "opaque"

\* the packet's extras, and an opaque packet's body, are long enough for the
\* fixed-offset reads of its opcode
IsWellFormed(e) ==
  /\ Len(e.args[2]) >= (IF e.args[1].opcode = 65 THEN 16 ELSE 5)
  /\ e.args[1].opcode = 68 => Len(PacketBody(e)) >= 4

\* handling the packet at i sends nothing and leaves _connected and the
\* recorded mode as they were
ReceiveOnly(i) ==
  /\ \A k \in (i + 1)..StepLast(i) : trace[k].kind \notin {"send", "closeReq", "connectReq"}
  /\ ConnAfter(i) = trace[i].at
  /\ ModeAfter(i) = trace[i].md

\* the packet at i is decoded into exactly one event, of its opcode's variant,
\* restating the packet's header
OneEvent(i) ==
  LET decoded == SelectSeq(Outputs(i), IsDecodedEmit)
  IN  /\ Len(decoded) = 1
      /\ decoded[1].name = VariantOf(trace[i].args[1].opcode)
      /\ decoded[1].args[Len(decoded[1].args)].header = trace[i].args[1]

\* C16 as stated: every inbound 0x41..0x44 packet yields exactly one decoded
\* event of the matching variant, within its own handling (so in arrival
\* order), sends no packet and changes neither _connected nor the recorded mode.
C16_ExactlyOneEvent ==
  \A i \in EnvIdx : IsEventPacketIn(trace[i]) => OneEvent(i) /\ ReceiveOnly(i)

\* C16 amended: every inbound 0x41..0x44 packet whose extras (and, for 0x44,
\* body) are long enough for its opcode's reads yields exactly one decoded event
\* of the matching variant, within its own handling (so in arrival order); a
\* shorter one yields none; either way handling it sends no packet and changes
\* neither _connected nor the recorded mode.
C16_ReceiveOnly ==
  \A i \in EnvIdx :
    IsEventPacketIn(trace[i]) =>
      /\ ReceiveOnly(i)
      /\ IF IsWellFormed(trace[i]) THEN OneEvent(i)
         ELSE SelectSeq(Outputs(i), IsDecodedEmit) = <<>>

\* a connected client with a recorded mode decodes two packets of different
\* variants one after the other
C16_Witness ==
  \E i, j \in EnvIdx :
    /\ j = StepLast(i) + 1
    /\ IsEventPacketIn(trace[i]) /\ IsEventPacketIn(trace[j])
    /\ trace[i].at /\ trace[i].md # <<>>
    /\ trace[i].args[1].opcode # trace[j].args[1].opcode
    /\ OneEvent(i) /\ OneEvent(j)

(*********************** C17: packets too short to read ********************)
\* C17: a 0x41..0x44 packet whose extras (or, for 0x44, body) are too short for
\* its opcode's reads yields no decoded event, is reported by an `error`
\* notification, leaves the client not connected, and no exception leaves the
\* handler.
C17_MalformedReported ==
  \A i \in EnvIdx :
    (IsEventPacketIn(trace[i]) /\ ~IsWellFormed(trace[i])) =>
      LET out == Outputs(i)
      IN  /\ \A k \in 1..Len(out) : ~IsDecodedEmit(out[k]) /\ out[k].kind # "throw"
          /\ \E k \in 1..Len(out) : IsEmitOf(out[k], "error")
          /\ ConnAfter(i) = FALSE

(************************ C18: the requests' headers ***********************)
IsRequest(e) == IsSend(e) /\ e.header.opcode \in {32, 33, 64}

\* the extras and the key each request is made of: a 0x40 request carries the
\* 4-byte flag word of the mode being set and the stream's name, a 0x21 request
\* the mechanism's name, a 0x20 request neither
RequestExtras(e) ==
  IF e.header.opcode = 64 THEN createUInt32BE(ModeFlags(e.md[1])) ELSE <<>>

RequestKey(e) ==
  CASE e.header.opcode = 32 -> <<>>
    [] e.header.opcode = 33 -> <<80, 76, 65, 73, 78>>
    [] e.header.opcode = 64 -> IF opts.name = <<>> THEN <<>> ELSE Utf8Encode(opts.name)

\* C18: every request sent has magic 0x80; its header's extrasLength and
\* keyLength are the lengths of the extras and of the key it is sent with,
\* which lead the bytes that follow the header in that order; and its total body
\* length is the number of bytes that follow the header: extras, key and body.
C18_HeaderLengths ==
  \A i \in 1..Len(trace) :
    IsSend(trace[i]) =>
      LET e == trace[i]
      IN  /\ IsRequest(e)
          /\ e.header.magic = 128
          /\ e.header.extrasLength = Len(RequestExtras(e))
          /\ e.header.keyLength = Len(RequestKey(e))
          /\ e.header.extrasLength + e.header.keyLength <= Len(e.payload)
          /\ WireExtras(e) = RequestExtras(e)
          /\ WireKey(e) = RequestKey(e)
          /\ e.header.dataLength =
               e.header.extrasLength + e.header.keyLength + Len(WireBody(e))
          /\ e.header.dataLength = Len(e.payload)

\* the three requests of a session have been sent, the last with a key and a body
C18_Witness ==
  \E i, j, k \in 1..Len(trace) :
    /\ IsSendOf(trace[i], 32) /\ IsSendOf(trace[j], 33) /\ IsSendOf(trace[k], 64)
    /\ trace[k].header.keyLength > 0
    /\ WireBody(trace[j]) # <<>>

(********************* C19: no unprompted handshake request ****************)
IsMechsRequest(e) == IsSendOf(e, 32)

IsAuthRequest(e) == IsSendOf(e, 33)

IsMechsResponse(e) == IsPacketInOf(e, 32)

\* C19: the 0x20 requests sent are as many as the transport connect signals
\* received, each sent in handling one; the 0x21 requests sent are as many as
\* the 0x20 responses received, each sent in handling one, so never before a
\* 0x20 response has arrived; no other input sends a handshake request.
C19_PromptedRequests ==
  /\ Len(SelectSeq(trace, IsMechsRequest)) = Len(SelectSeq(trace, IsTransportConnect))
  /\ Len(SelectSeq(trace, IsAuthRequest)) = Len(SelectSeq(trace, IsMechsResponse))
  /\ \A i \in 1..Len(trace) :
       IsEnvIn(trace[i]) =>
         LET out == Outputs(i)
         IN  /\ Len(SelectSeq(out, IsMechsRequest)) = (IF IsTransportConnect(trace[i]) THEN 1 ELSE 0)
             /\ Len(SelectSeq(out, IsAuthRequest)) = (IF IsMechsResponse(trace[i]) THEN 1 ELSE 0)
  /\ \A k \in 1..Len(trace) :
       IsAuthRequest(trace[k]) => \E j \in 1..(k - 1) : IsMechsResponse(trace[j])

\* two connect signals and one 0x20 response have been handled
C19_Witness ==
  /\ Len(SelectSeq(trace, IsMechsRequest)) = 2
  /\ Len(SelectSeq(trace, IsAuthRequest)) = 1

(**************** C20: the authenticate request and the offer **************)
\* the 0x21 request of a client configured with this bucket and password: a
\* function of the two alone
AuthRequestOf(bucket, password) ==
  LET body == Utf8Encode(<<0>> \o bucket \o <<0>> \o password)
  IN  [header  |-> [createHeader EXCEPT !.magic = 128, !.opcode = 33,
                                        !.keyLength = 5,
                                        !.dataLength = 5 + Len(body)],
       payload |-> <<80, 76, 65, 73, 78>> \o body]

\* C20: whatever extras, key and body the 0x20 response carries, the 0x21
\* request sent in answer is the one fixed by the configured bucket and
\* password, key "PLAIN" included; so two runs that differ only in the 0x20
\* response send the same 0x21 request.
C20_AuthRequestFixed ==
  \A i \in EnvIdx :
    IsMechsResponse(trace[i]) =>
      LET reqs == SelectSeq(Outputs(i), IsSend)
      IN  /\ Len(reqs) = 1
          /\ [header |-> reqs[1].header, payload |-> reqs[1].payload]
               = AuthRequestOf(opts.bucket, opts.password)

\* a 0x20 response offering only CRAM-MD5 in its extras has been answered by a
\* client whose bucket name is not ASCII
C20_Witness ==
  \E i \in EnvIdx :
    /\ IsMechsResponse(trace[i])
    /\ trace[i].args[2] = <<67, 82, 65, 77, 45, 77, 68, 53>>
    /\ opts.bucket = <<98, 233>>
    /\ \E k \in 1..Len(Outputs(i)) : IsAuthRequest(Outputs(i)[k])

====
